---- MODULE Spec2Model ----
(***************************************************************************)
(* Model of the inko-bot transaction engine: the retry / backoff /        *)
(* failover loop of executeTransaction, the balance and allowance checks   *)
(* built on it, the continuous-mode main loop that sequences them, and     *)
(* the daily cycle of batch mode.                                          *)
(*                                                                         *)
(* The program is a single thread of control that suspends at every        *)
(* `await`.  Each action below is the code that runs between two           *)
(* suspension points; what the network answers (a value, or an error       *)
(* object that is thrown) is the input of the action.                      *)
(***************************************************************************)
EXTENDS Integers, Sequences, FiniteSets, TLC

(***************************************************************************)
(* Bounds of the model.                                                    *)
(***************************************************************************)
\* the main loop stops starting new iterations after this many counted pairs
MaxPairs == 2
\* number of random digits of a token identifier (the code's default is 18)
TokenLen == 1
\* number of submissions kept in txLog
MaxLog == 4
\* the bounds of the number of pairs of a day in batch mode, standing for
\* the 25 and 50 of the program
PAIR_GOAL_MIN == 1
PAIR_GOAL_MAX == 2

(***************************************************************************)
(* Program constants.                                                      *)
(***************************************************************************)
RPC_URLS == << "https://sepolia.base.org",
               "https://base-sepolia.drpc.org",
               "https://base-sepolia.therpc.io" >>
MAX_RETRIES == 5
\* token amounts are counted in whole tokens (10^18 base units)
MINT_AMOUNT == 100
SUFFICIENT_ALLOWANCE == 1000000
\* ethers.MaxUint256; the largest integer of the model stands for 2^256 - 1
MaxUint256 == 2147483647

\* the delays of the code, in milliseconds
BACKOFF_MIN == 60000
BACKOFF_MAX == 120000
RPC_SWITCH_DELAY == 2000
SETUP_FAIL_DELAY == 60000
MINT_FAIL_DELAY == 120000
PAIR_FAIL_DELAY == 60000
INTER_TX_MIN == 10000
INTER_TX_MAX == 30000
MAIN_DELAY_MIN == 300000
MAIN_DELAY_MAX == 600000
\* the status of process.exit(1)
EXIT_FAILURE == 1
\* batch mode: the delay after a wrap, the delay between pairs, a day
BATCH_POST_WRAP_MIN == 30000
BATCH_POST_WRAP_MAX == 60000
BATCH_PAIR_MIN == 10000
BATCH_PAIR_MAX == 20000
ONE_DAY_MS == 86400000

(***************************************************************************)
(* Inputs: what the outside world can answer.                              *)
(***************************************************************************)
\* error.code of a thrown error ("" when the error carries no code);
\* the numeric JSON-RPC code -32029 is written as a string
ErrorCodes == { "-32029", "SERVER_ERROR", "NETWORK_ERROR", "TIMEOUT",
                "CALL_EXCEPTION", "" }
\* error.message of a thrown error ("" when it carries none)
ErrorMessages == { "rate limit exceeded",
                   "Rate Limit Exceeded",
                   "failed to detect network",
                   "Failed To Detect Network",
                   "rate limit exceeded; failed to detect network",
                   "execution reverted",
                   "" }
\* the errors the model throws: each code without a message, each message
\* without a code, and the errors whose code and message match different
\* tests of the catch block
Errors ==
    { [ code |-> c, message |-> "" ] : c \in ErrorCodes }
    \cup { [ code |-> "", message |-> m ] : m \in ErrorMessages }
    \cup { [ code |-> "-32029", message |-> "failed to detect network" ],
           [ code |-> "SERVER_ERROR", message |-> "rate limit exceeded" ],
           [ code |-> "CALL_EXCEPTION", message |-> "execution reverted" ] }

\* values the allowance and balance reads can return
Allowances == { 0, SUFFICIENT_ALLOWANCE - 1, SUFFICIENT_ALLOWANCE, MaxUint256 }
Balances == { 0, 1, MINT_AMOUNT }
\* values of Math.random() digit choices and of Date.now()
RandDigits == { 0, 7 }
Timestamps == { 1234567, 1200045 }

(***************************************************************************)
(* Pure helpers.                                                           *)
(***************************************************************************)
\* String.prototype.toLowerCase on the messages of the model
toLowerCase(m) ==
    CASE m = "Rate Limit Exceeded" -> "rate limit exceeded"
      [] m = "Failed To Detect Network" -> "failed to detect network"
      [] OTHER -> m

\* String.prototype.includes for the two needles the code searches for
includes(m, needle) ==
    CASE m = "rate limit exceeded" -> needle = "rate limit exceeded"
      [] m = "failed to detect network" -> needle = "failed to detect network"
      [] m = "rate limit exceeded; failed to detect network" ->
             needle \in { "rate limit exceeded", "failed to detect network" }
      [] OTHER -> FALSE

\* randomDelay(min, max): an integer of min..max; the model draws the two
\* ends
randomDelay(min, max) == { min, max }

isRateLimitError(error) ==
    \/ error.code = "-32029"
    \/ /\ error.message # ""
       /\ includes(toLowerCase(error.message), "rate limit exceeded")

isNetworkError(error) ==
    \/ error.code \in { "SERVER_ERROR", "NETWORK_ERROR", "TIMEOUT" }
    \/ /\ error.message # ""
       /\ includes(error.message, "failed to detect network")

\* a catch block that tests for the network error first
Classify_NetworkFirst(error) ==
    IF isNetworkError(error) THEN "NetworkFailure"
    ELSE IF isRateLimitError(error) THEN "RateLimited"
    ELSE "FatalError"

\* the branch of the catch block that handles the error
Classify(error) ==
    IF isRateLimitError(error) THEN "RateLimited"
    ELSE IF isNetworkError(error) THEN "NetworkFailure"
    ELSE "FatalError"

\* a slip of the bound: a wait is also taken after the last attempt
RetryAllowed_OffByOne(a) == a <= MAX_RETRIES

\* `attempt < MAX_RETRIES` of the rate-limit branch
RetryAllowed(a) == a < MAX_RETRIES

\* a catch block that treats a fatal error like a rate limit
ErrorPolicy_RetryFatal(kind, a) ==
    CASE kind = "NetworkFailure" -> "failover"
      [] OTHER -> IF RetryAllowed(a) THEN "backoff" ELSE "abort"

\* a catch block that switches endpoint on a rate limit as well
ErrorPolicy_SwitchOnRateLimit(kind, a) ==
    CASE kind \in { "RateLimited", "NetworkFailure" } -> "failover"
      [] OTHER -> "abort"

\* what the catch block does with an error of the given kind on the given
\* attempt: wait and retry, switch endpoint and retry, or return false
ErrorPolicy(kind, a) ==
    CASE kind = "RateLimited" -> IF RetryAllowed(a) THEN "backoff" ELSE "abort"
      [] kind = "NetworkFailure" -> "failover"
      [] OTHER -> "abort"

\* a loop that reports success when it runs out of attempts
ExhaustedResult_True == TRUE

\* the `return false` after the for loop
ExhaustedResult == FALSE

\* a loop that runs one attempt too many
LoopContinues_OneMore(a) == a <= MAX_RETRIES + 1

\* `attempt <= MAX_RETRIES`, the condition of the for loop
LoopContinues(a) == a <= MAX_RETRIES

\* an advance that forgets to wrap around
NextRpcIndex_NoWrap(i) == i + 1

\* (currentRpcIndex + 1) % RPC_URLS.length
NextRpcIndex(i) == (i + 1) % Len(RPC_URLS)

\* initializeConnections(): provider, wallet and both contracts are built
\* for the endpoint at index i
initializeConnections(i) ==
    [ provider |-> i, wallet |-> i, mintContract |-> i, wrapperContract |-> i ]

\* a check that mints whenever the balance is below the mint amount
NeedsMint_BelowAmount(balance) == balance < MINT_AMOUNT

\* balance === 0n
NeedsMint(balance) == balance = 0

\* a comparison that also approves at the threshold itself
NeedsApprove_AtThreshold(allowance) == allowance <= SUFFICIENT_ALLOWANCE

\* allowance < SUFFICIENT_ALLOWANCE
NeedsApprove(allowance) == allowance < SUFFICIENT_ALLOWANCE

\* decimal digits of a natural number, most significant first
RECURSIVE ToDigits(_)
ToDigits(n) == IF n < 10 THEN << n >> ELSE Append(ToDigits(n \div 10), n % 10)

\* the value of a string of decimal digits (BigInt(result))
RECURSIVE BigInt(_)
BigInt(ds) ==
    IF Len(ds) = 0 THEN 0
    ELSE 10 * BigInt(SubSeq(ds, 1, Len(ds) - 1)) + ds[Len(ds)]

\* s.slice(-k)
SliceLast(s, k) == IF Len(s) <= k THEN s ELSE SubSeq(s, Len(s) - k + 1, Len(s))

\* getRandomTokenID(length): rnd are the `length` random digits, now is
\* Date.now()
getRandomTokenID(rnd, now) == BigInt(rnd \o SliceLast(ToDigits(now), 5))

\* the two tests of the catch block when no error is being handled
NoTests == [ rate |-> FALSE, net |-> FALSE ]

VARIABLES
    pc,               \* position of main()
    exitCode,         \* status of process.exit(), -1 while the process runs
    sleepMs,          \* duration of the sleep in progress, 0 when none
    currentRpcIndex,  \* index into RPC_URLS, from 0
    conn,             \* provider, wallet, mintContract, wrapperContract
    successfulPairs,  \* counter of main()
    randomID,         \* token identifier of the current iteration
    idRnd,            \* the random digits it was made of
    idNow,            \* the Date.now() it was made of
    readyToWrap,      \* locals of the current iteration of main()
    wrapSuccess,
    unwrapSuccess,
    idWrapCalls,      \* Wrap calls made with the current randomID
    chkPc,            \* position of the running precondition check
    chkRead,          \* value its read returned, -1 before and on failure
    chkError,         \* kind of the error its read threw, "none" otherwise
    chkCalls,         \* executeTransaction calls it has made
    chkRet,           \* its return value
    exPc,             \* position of the running executeTransaction
    exAction,         \* the action it submits: name and argument
    attempt,          \* its loop variable
    exOutcomes,       \* how each finished attempt of the call ended
    exSubmits,        \* invocations of fn() of the call
    exAcked,          \* a submission of the call has returned its handle
    exBackoffs,       \* rate-limit waits of the call
    exTests,          \* isRateLimitError, isNetworkError of its catch block
    exStartIndex,     \* currentRpcIndex when the call began
    exRet,            \* its return value
    scenarioA,        \* no failure so far, and the first reads returned 0
    txLog,            \* the first MaxLog submissions made under scenarioA
    dailyPairGoal,    \* locals of runDailyCycle() (batch mode)
    batchI,           \* its loop variable i
    txCounter,
    mintSuccess,
    approveSuccess

vars == << pc, exitCode, sleepMs, currentRpcIndex, conn, successfulPairs,
           randomID, idRnd, idNow,
           readyToWrap, wrapSuccess, unwrapSuccess, idWrapCalls,
           chkPc, chkRead, chkError, chkCalls, chkRet,
           exPc, exAction, attempt, exOutcomes, exSubmits, exAcked,
           exBackoffs, exTests,
           exStartIndex, exRet, scenarioA, txLog,
           dailyPairGoal, batchI, txCounter, mintSuccess, approveSuccess >>

mainVars == << pc, exitCode, successfulPairs, randomID, idRnd, idNow,
               readyToWrap, wrapSuccess, unwrapSuccess, idWrapCalls >>
chkVars == << chkPc, chkRead, chkError, chkCalls, chkRet >>
exVars == << exPc, exAction, attempt, exOutcomes, exSubmits, exAcked,
             exBackoffs, exTests,
             exStartIndex, exRet >>
batchVars == << dailyPairGoal, batchI, txCounter, mintSuccess,
                approveSuccess >>
idVars == << randomID, idRnd, idNow, idWrapCalls >>

NoAction == [ name |-> "none", arg |-> 0 ]

(***************************************************************************)
(* Init: main() has run initializeConnections() and has called             *)
(* checkAndApproveIfNeeded(), which is waiting for the allowance read.     *)
(***************************************************************************)
Init ==
    /\ pc = "setup"
    /\ exitCode = -1
    /\ sleepMs = 0
    /\ currentRpcIndex = 0
    /\ conn = initializeConnections(0)
    /\ successfulPairs = 0
    /\ randomID = 0
    /\ idRnd = << >>
    /\ idNow = 0
    /\ readyToWrap = FALSE
    /\ wrapSuccess = FALSE
    /\ unwrapSuccess = FALSE
    /\ idWrapCalls = 0
    /\ chkPc = "read"
    /\ chkRead = -1
    /\ chkError = "none"
    /\ chkCalls = 0
    /\ chkRet = FALSE
    /\ exPc = "idle"
    /\ exAction = NoAction
    /\ attempt = 0
    /\ exOutcomes = << >>
    /\ exSubmits = 0
    /\ exAcked = FALSE
    /\ exBackoffs = 0
    /\ exTests = NoTests
    /\ exStartIndex = 0
    /\ exRet = FALSE
    /\ txLog = << >>
    /\ scenarioA = TRUE
    /\ dailyPairGoal = 0
    /\ batchI = 0
    /\ txCounter = 0
    /\ mintSuccess = FALSE
    /\ approveSuccess = FALSE

(***************************************************************************)
(* executeTransaction(fn, actionName)                                      *)
(***************************************************************************)
\* the call itself: the loop starts with attempt = 1 and issues
\* provider.getFeeData()
CallExecute(name, arg) ==
    /\ exPc' = "fee"
    /\ exAction' = [ name |-> name, arg |-> arg ]
    /\ attempt' = 1
    /\ exOutcomes' = << >>
    /\ exSubmits' = 0
    /\ exAcked' = FALSE
    /\ exBackoffs' = 0
    /\ exTests' = NoTests
    /\ exStartIndex' = currentRpcIndex
    /\ exRet' = FALSE

\* the caller has taken the return value: the frame of the call is gone
ExecDone ==
    /\ exPc' = "idle"
    /\ exAction' = NoAction
    /\ attempt' = 0
    /\ exOutcomes' = << >>
    /\ exSubmits' = 0
    /\ exAcked' = FALSE
    /\ exBackoffs' = 0
    /\ exTests' = NoTests
    /\ exStartIndex' = 0
    /\ exRet' = FALSE

\* `return value` of executeTransaction
ExecReturn(value) ==
    /\ exPc' = "returned"
    /\ exRet' = value

\* the catch block
HandleError(error) ==
    LET kind == Classify(error)
        policy == ErrorPolicy(kind, attempt)
    IN
    /\ exOutcomes' = Append(exOutcomes, kind)
    /\ exTests' = [ rate |-> isRateLimitError(error),
                    net |-> isNetworkError(error) ]
    /\ scenarioA' = FALSE
    /\ UNCHANGED << exAction, attempt, exSubmits, exAcked,
                    exStartIndex, txLog >>
    /\ CASE policy = "backoff" ->
              /\ exPc' = "backoff"
              /\ sleepMs' \in randomDelay(BACKOFF_MIN, BACKOFF_MAX)
              /\ exBackoffs' = exBackoffs + 1
              /\ UNCHANGED << currentRpcIndex, conn, exRet >>
         [] policy = "failover" ->
              /\ currentRpcIndex' = NextRpcIndex(currentRpcIndex)
              /\ conn' = initializeConnections(currentRpcIndex')
              /\ exPc' = "switch"
              /\ sleepMs' = RPC_SWITCH_DELAY
              /\ UNCHANGED << exRet, exBackoffs >>
         [] OTHER ->
              /\ ExecReturn(FALSE)
              /\ UNCHANGED << currentRpcIndex, conn, sleepMs, exBackoffs >>

\* provider.getFeeData() answers; on success fn({ gasPrice }) is invoked
ExecFee ==
    /\ exPc = "fee"
    /\ UNCHANGED mainVars
    /\ UNCHANGED chkVars
    /\ UNCHANGED batchVars
    /\ \/ /\ exPc' = "submit"
          /\ exSubmits' = exSubmits + 1
          /\ txLog' = IF scenarioA /\ Len(txLog) < MaxLog
                      THEN Append(txLog, exAction.name) ELSE txLog
          /\ UNCHANGED << sleepMs, currentRpcIndex, conn, exAction, attempt,
                          exOutcomes, exAcked, exBackoffs, exTests,
                          exStartIndex, exRet, scenarioA >>
       \/ \E error \in Errors : HandleError(error)

\* the submission answers: the transaction handle, or an error
ExecSubmit ==
    /\ exPc = "submit"
    /\ UNCHANGED mainVars
    /\ UNCHANGED chkVars
    /\ UNCHANGED batchVars
    /\ \/ /\ exPc' = "wait"
          /\ exAcked' = TRUE
          /\ UNCHANGED << sleepMs, currentRpcIndex, conn, exAction, attempt,
                          exOutcomes, exSubmits, exBackoffs, exTests,
                          exStartIndex, exRet, txLog, scenarioA >>
       \/ \E error \in Errors : HandleError(error)

\* tx.wait() answers: the receipt, or an error
ExecWait ==
    /\ exPc = "wait"
    /\ UNCHANGED mainVars
    /\ UNCHANGED chkVars
    /\ UNCHANGED batchVars
    /\ \/ /\ exOutcomes' = Append(exOutcomes, "Confirmed")
          /\ ExecReturn(TRUE)
          /\ UNCHANGED << sleepMs, currentRpcIndex, conn, exAction, attempt,
                          exSubmits, exAcked, exBackoffs, exTests,
                          exStartIndex, txLog, scenarioA >>
       \/ \E error \in Errors : HandleError(error)

\* the sleep of the catch block ends: `continue`, attempt++, loop test;
\* when the loop ends the function returns false
ExecWake ==
    /\ exPc \in { "backoff", "switch" }
    /\ UNCHANGED mainVars
    /\ UNCHANGED chkVars
    /\ UNCHANGED batchVars
    /\ sleepMs' = 0
    /\ attempt' = attempt + 1
    /\ IF LoopContinues(attempt + 1)
       THEN /\ exPc' = "fee"
            /\ UNCHANGED exRet
       ELSE ExecReturn(ExhaustedResult)
    /\ exTests' = NoTests
    /\ UNCHANGED << currentRpcIndex, conn, exAction, exOutcomes, exSubmits,
                    exAcked, exBackoffs, exStartIndex, txLog, scenarioA >>

(***************************************************************************)
(* checkAndApproveIfNeeded() and checkAndMintIfNeeded()                    *)
(***************************************************************************)
\* the caller has taken the return value of a check
CheckDone ==
    /\ chkPc' = "idle"
    /\ chkRead' = -1
    /\ chkError' = "none"
    /\ chkCalls' = 0
    /\ chkRet' = FALSE

\* the call of a check: it issues its read
CallCheck ==
    /\ chkPc' = "read"
    /\ chkRead' = -1
    /\ chkError' = "none"
    /\ chkCalls' = 0
    /\ chkRet' = FALSE

\* `return value` of a check
CheckReturn(value) ==
    /\ chkPc' = "returned"
    /\ chkRet' = value

\* a catch block that switches endpoint when the read failed with a
\* network error
ReadErrorPolicy_Failover(error) ==
    IF isNetworkError(error) THEN "failover" ELSE "abort"

\* what the catch block of a check does with the error of a failed read:
\* it looks at no field of the error and returns false
ReadErrorPolicy(error) == "abort"

\* the read of a check throws: the catch block returns false
CheckReadFails ==
    \E error \in Errors :
        /\ CheckReturn(FALSE)
        /\ chkError' = Classify(error)
        /\ scenarioA' = FALSE
        /\ UNCHANGED << chkRead, chkCalls >>
        /\ UNCHANGED exVars
        /\ IF ReadErrorPolicy(error) = "failover"
           THEN /\ currentRpcIndex' = NextRpcIndex(currentRpcIndex)
                /\ conn' = initializeConnections(currentRpcIndex')
           ELSE UNCHANGED << currentRpcIndex, conn >>

\* mintContract.allowance() answers
ApproveRead ==
    /\ pc = "setup"
    /\ chkPc = "read"
    /\ UNCHANGED mainVars
    /\ UNCHANGED batchVars
    /\ UNCHANGED << sleepMs, txLog >>
    /\ \/ \E allowance \in Allowances :
            /\ chkRead' = allowance
            /\ scenarioA' = (scenarioA /\ allowance = 0)
            /\ UNCHANGED << currentRpcIndex, conn, chkError >>
            /\ IF NeedsApprove(allowance)
               THEN /\ CallExecute("Approve", MaxUint256)
                    /\ chkPc' = "exec"
                    /\ chkCalls' = chkCalls + 1
                    /\ UNCHANGED chkRet
               ELSE /\ CheckReturn(TRUE)
                    /\ UNCHANGED chkCalls
                    /\ UNCHANGED exVars
       \/ CheckReadFails

\* mintContract.balanceOf() answers
MintRead ==
    /\ pc = "check_balance"
    /\ chkPc = "read"
    /\ UNCHANGED mainVars
    /\ UNCHANGED batchVars
    /\ UNCHANGED << sleepMs, txLog >>
    /\ \/ \E balance \in Balances :
            /\ chkRead' = balance
            /\ scenarioA' = (scenarioA /\ (successfulPairs = 0 => balance = 0))
            /\ UNCHANGED << currentRpcIndex, conn, chkError >>
            /\ IF NeedsMint(balance)
               THEN /\ CallExecute("Mint", MINT_AMOUNT)
                    /\ chkPc' = "exec"
                    /\ chkCalls' = chkCalls + 1
                    /\ UNCHANGED chkRet
               ELSE /\ CheckReturn(TRUE)
                    /\ UNCHANGED chkCalls
                    /\ UNCHANGED exVars
       \/ CheckReadFails

\* `return await executeTransaction(...)` of either check
CheckExecReturn ==
    /\ chkPc = "exec"
    /\ exPc = "returned"
    /\ CheckReturn(exRet)
    /\ ExecDone
    /\ UNCHANGED mainVars
    /\ UNCHANGED batchVars
    /\ UNCHANGED << sleepMs, currentRpcIndex, conn, chkRead, chkError,
                    chkCalls, txLog, scenarioA >>

(***************************************************************************)
(* main(), continuous mode                                                 *)
(***************************************************************************)
\* the top of `while (true)`: checkAndMintIfNeeded() is called
LoopStart ==
    /\ pc' = "check_balance"
    /\ readyToWrap' = FALSE
    /\ wrapSuccess' = FALSE
    /\ unwrapSuccess' = FALSE
    /\ randomID' = 0
    /\ idRnd' = << >>
    /\ idNow' = 0
    /\ idWrapCalls' = 0
    /\ CallCheck

\* a main() that enters the loop whatever the setup returned
AfterSetup_IgnoreFailure(ok) == "check_balance"

\* where main() goes when checkAndApproveIfNeeded() has returned
AfterSetup(ok) == IF ok THEN "check_balance" ELSE "setup_fail_sleep"

\* a main() that wraps whatever the balance check returned
AfterBalance_IgnoreFailure(ok) == "wrap"

\* where main() goes when checkAndMintIfNeeded() has returned
AfterBalance(ok) == IF ok THEN "wrap" ELSE "mint_fail_sleep"

\* a main() that counts the pair after the wrap and skips the unwrap
AfterWrap_SkipUnwrap(ok) == IF ok THEN "pair_delay" ELSE "wrap_fail_delay"

\* a main() that goes on to unwrap whatever the Wrap call returned
AfterWrap_IgnoreFailure(ok) == "inter_delay"

\* where main() goes when the Wrap call has returned
AfterWrap(ok) == IF ok THEN "inter_delay" ELSE "wrap_fail_delay"

\* a main() that unwraps the same identifier again when the unwrap failed
AfterUnwrap_Retry(ok) == IF ok THEN "pair_delay" ELSE "inter_delay"

\* where main() goes when the Unwrap call has returned
AfterUnwrap(ok) == IF ok THEN "pair_delay" ELSE "unwrap_fail_delay"

\* a counter that also counts the pairs whose unwrap failed
CountPair_Always(n, ok) == n + 1

\* successfulPairs++ happens only when the Unwrap call returned true
CountPair(n, ok) == IF ok THEN n + 1 ELSE n

\* checkAndApproveIfNeeded() has returned to main()
SetupReturn ==
    /\ pc = "setup"
    /\ chkPc = "returned"
    /\ IF AfterSetup(chkRet) = "check_balance"
       THEN /\ LoopStart
            /\ successfulPairs' = 0
            /\ UNCHANGED sleepMs
       ELSE /\ pc' = "setup_fail_sleep"
            /\ sleepMs' = SETUP_FAIL_DELAY
            /\ CheckDone
            /\ UNCHANGED << successfulPairs, readyToWrap, wrapSuccess,
                            unwrapSuccess >>
            /\ UNCHANGED idVars
    /\ UNCHANGED << exitCode, currentRpcIndex, conn, txLog, scenarioA >>
    /\ UNCHANGED exVars
    /\ UNCHANGED batchVars

\* the sleep after a failed setup ends: process.exit(1)
SetupFailExit ==
    /\ pc = "setup_fail_sleep"
    /\ pc' = "exited"
    /\ exitCode' = EXIT_FAILURE
    /\ sleepMs' = 0
    /\ UNCHANGED << currentRpcIndex, conn, successfulPairs,
                    readyToWrap, wrapSuccess, unwrapSuccess,
                    txLog, scenarioA >>
    /\ UNCHANGED idVars
    /\ UNCHANGED chkVars
    /\ UNCHANGED exVars
    /\ UNCHANGED batchVars

\* checkAndMintIfNeeded() has returned to main(): on true a token
\* identifier is generated and the Wrap call is made
BalanceReturn ==
    /\ pc = "check_balance"
    /\ chkPc = "returned"
    /\ readyToWrap' = chkRet
    /\ CheckDone
    /\ IF AfterBalance(chkRet) = "wrap"
       THEN /\ \E rnd \in [ 1..TokenLen -> RandDigits ], now \in Timestamps :
                 /\ idRnd' = rnd
                 /\ idNow' = now
                 /\ randomID' = getRandomTokenID(rnd, now)
                 /\ CallExecute("Wrap", randomID')
            /\ idWrapCalls' = idWrapCalls + 1
            /\ pc' = "wrap"
            /\ UNCHANGED sleepMs
       ELSE /\ pc' = "mint_fail_sleep"
            /\ sleepMs' = MINT_FAIL_DELAY
            /\ UNCHANGED idVars
            /\ UNCHANGED exVars
    /\ UNCHANGED << exitCode, currentRpcIndex, conn, successfulPairs,
                    wrapSuccess, unwrapSuccess, txLog, scenarioA >>
    /\ UNCHANGED batchVars

\* the Wrap call has returned to main()
WrapReturn ==
    /\ pc = "wrap"
    /\ exPc = "returned"
    /\ ExecDone
    /\ wrapSuccess' = exRet
    /\ pc' = AfterWrap(exRet)
    /\ sleepMs' \in IF AfterWrap(exRet) = "inter_delay"
                    THEN randomDelay(INTER_TX_MIN, INTER_TX_MAX)
                    ELSE { PAIR_FAIL_DELAY }
    /\ UNCHANGED << exitCode, currentRpcIndex, conn, successfulPairs,
                    readyToWrap, unwrapSuccess, txLog, scenarioA >>
    /\ UNCHANGED idVars
    /\ UNCHANGED chkVars
    /\ UNCHANGED batchVars

\* the delay between wrap and unwrap ends: the Unwrap call is made
InterDelayWake ==
    /\ pc = "inter_delay"
    /\ pc' = "unwrap"
    /\ sleepMs' = 0
    /\ CallExecute("Unwrap", randomID)
    /\ UNCHANGED << exitCode, currentRpcIndex, conn, successfulPairs,
                    readyToWrap, wrapSuccess, unwrapSuccess,
                    txLog, scenarioA >>
    /\ UNCHANGED idVars
    /\ UNCHANGED chkVars
    /\ UNCHANGED batchVars

\* the Unwrap call has returned to main()
UnwrapReturn ==
    /\ pc = "unwrap"
    /\ exPc = "returned"
    /\ ExecDone
    /\ unwrapSuccess' = exRet
    /\ successfulPairs' = CountPair(successfulPairs, exRet)
    /\ pc' = AfterUnwrap(exRet)
    /\ sleepMs' \in IF AfterUnwrap(exRet) = "pair_delay"
                    THEN randomDelay(MAIN_DELAY_MIN, MAIN_DELAY_MAX)
                    ELSE { PAIR_FAIL_DELAY }
    /\ UNCHANGED << exitCode, currentRpcIndex, conn, readyToWrap,
                    wrapSuccess, txLog, scenarioA >>
    /\ UNCHANGED idVars
    /\ UNCHANGED chkVars
    /\ UNCHANGED batchVars

\* a sleep at the end of an iteration ends: the next iteration begins
DelayWake ==
    /\ pc \in { "mint_fail_sleep", "wrap_fail_delay", "unwrap_fail_delay",
                "pair_delay" }
    /\ successfulPairs < MaxPairs
    /\ LoopStart
    /\ sleepMs' = 0
    /\ UNCHANGED << exitCode, currentRpcIndex, conn, successfulPairs, txLog,
                    scenarioA >>
    /\ UNCHANGED exVars
    /\ UNCHANGED batchVars

Next ==
    \/ ExecFee
    \/ ExecSubmit
    \/ ExecWait
    \/ ExecWake
    \/ ApproveRead
    \/ MintRead
    \/ CheckExecReturn
    \/ SetupReturn
    \/ SetupFailExit
    \/ BalanceReturn
    \/ WrapReturn
    \/ InterDelayWake
    \/ UnwrapReturn
    \/ DelayWake

Spec == Init /\ [][Next]_vars

\* every await of the program returns: whatever step is enabled is taken
LiveSpec == Spec /\ WF_vars(Next)

(***************************************************************************)
(* The same program when the ABI files can become unreadable: loadJson()   *)
(* then throws inside initializeConnections().                             *)
(***************************************************************************)
\* initializeConnections() when loadJson() throws: provider and wallet have
\* been assigned for the endpoint at index i, the two contracts have not
initializeConnectionsThrows(old, i) ==
    [ old EXCEPT !.provider = i, !.wallet = i ]

\* an attempt fails with a network error and the rebuild of the catch
\* block throws: the exception leaves executeTransaction
ExecRebuildThrows ==
    /\ exPc \in { "fee", "submit", "wait" }
    /\ \E error \in Errors :
          /\ ErrorPolicy(Classify(error), attempt) = "failover"
          /\ exOutcomes' = Append(exOutcomes, Classify(error))
          /\ exTests' = [ rate |-> isRateLimitError(error),
                          net |-> isNetworkError(error) ]
    /\ currentRpcIndex' = NextRpcIndex(currentRpcIndex)
    /\ conn' = initializeConnectionsThrows(conn, currentRpcIndex')
    /\ exPc' = "thrown"
    /\ scenarioA' = FALSE
    /\ UNCHANGED << sleepMs, exAction, attempt, exSubmits, exAcked,
                    exBackoffs, exStartIndex, exRet, txLog >>
    /\ UNCHANGED mainVars
    /\ UNCHANGED chkVars
    /\ UNCHANGED batchVars

\* the exception reaches the catch block of the check that made the call:
\* the check returns false
CheckExecThrown ==
    /\ chkPc = "exec"
    /\ exPc = "thrown"
    /\ CheckReturn(FALSE)
    /\ ExecDone
    /\ UNCHANGED mainVars
    /\ UNCHANGED batchVars
    /\ UNCHANGED << sleepMs, currentRpcIndex, conn, chkRead, chkError,
                    chkCalls, txLog, scenarioA >>

\* the exception of a Wrap or Unwrap call reaches main().catch:
\* process.exit(1)
MainExecThrown ==
    /\ pc \in { "wrap", "unwrap" }
    /\ exPc = "thrown"
    /\ pc' = "exited"
    /\ exitCode' = EXIT_FAILURE
    /\ ExecDone
    /\ UNCHANGED << sleepMs, currentRpcIndex, conn, successfulPairs,
                    readyToWrap, wrapSuccess, unwrapSuccess, txLog,
                    scenarioA >>
    /\ UNCHANGED idVars
    /\ UNCHANGED chkVars
    /\ UNCHANGED batchVars

FaultNext ==
    \/ Next
    \/ ExecRebuildThrows
    \/ CheckExecThrown
    \/ MainExecThrown

FaultSpec == Init /\ [][FaultNext]_vars

(***************************************************************************)
(* Batch mode: runDailyCycle() and main() of src/main.js.  The helpers and *)
(* executeTransaction are the same code as in continuous mode.             *)
(***************************************************************************)
\* randomDelay(25, 50), the number of pairs of the day
PairGoals == PAIR_GOAL_MIN..PAIR_GOAL_MAX

\* Math.max(0, oneDayInMs - cycleDuration): the cycle was longer than a
\* day, or took no time at all
DaySleeps == { 0, ONE_DAY_MS }

\* a cycle that goes on to the pairs when only the mint succeeded
PreparationOk_MintOnly(mintOk, approveOk) == mintOk

\* the negation of `!mintSuccess || !approveSuccess`
PreparationOk(mintOk, approveOk) == mintOk /\ approveOk

\* `i < dailyPairGoal`: a further pair follows, whatever the outcome of
\* the transactions of this one
PairLoopContinues(i, goal) == i < goal

\* the state at the first await of the first cycle: the goal of the day
\* has been chosen and the Daily Mint call has been made
BatchInit ==
    /\ pc = "daily_mint"
    /\ exitCode = -1
    /\ sleepMs = 0
    /\ currentRpcIndex = 0
    /\ conn = initializeConnections(0)
    /\ successfulPairs = 0
    /\ randomID = 0
    /\ idRnd = << >>
    /\ idNow = 0
    /\ readyToWrap = FALSE
    /\ wrapSuccess = FALSE
    /\ unwrapSuccess = FALSE
    /\ idWrapCalls = 0
    /\ chkPc = "idle"
    /\ chkRead = -1
    /\ chkError = "none"
    /\ chkCalls = 0
    /\ chkRet = FALSE
    /\ exPc = "fee"
    /\ exAction = [ name |-> "Mint", arg |-> MINT_AMOUNT ]
    /\ attempt = 1
    /\ exOutcomes = << >>
    /\ exSubmits = 0
    /\ exAcked = FALSE
    /\ exBackoffs = 0
    /\ exTests = NoTests
    /\ exStartIndex = 0
    /\ exRet = FALSE
    /\ txLog = << >>
    /\ scenarioA = FALSE
    /\ dailyPairGoal \in PairGoals
    /\ batchI = 0
    /\ txCounter = 0
    /\ mintSuccess = FALSE
    /\ approveSuccess = FALSE

\* what no step of batch mode touches
batchFrame == << exitCode, currentRpcIndex, conn, successfulPairs,
                 readyToWrap, chkPc, chkRead, chkError, chkCalls, chkRet,
                 txLog, scenarioA >>

\* the body of the for loop begins: an identifier is generated and the
\* Wrap call is made
BatchStartPair ==
    /\ \E rnd \in [ 1..TokenLen -> RandDigits ], now \in Timestamps :
          /\ idRnd' = rnd
          /\ idNow' = now
          /\ randomID' = getRandomTokenID(rnd, now)
          /\ CallExecute("Wrap", randomID')
    /\ idWrapCalls' = 1
    /\ wrapSuccess' = FALSE
    /\ unwrapSuccess' = FALSE
    /\ pc' = "batch_wrap"
    /\ sleepMs' = 0

\* runDailyCycle() returns to main(), which sleeps for the rest of the day
BatchCycleEnd ==
    /\ pc' = "day_sleep"
    /\ sleepMs' \in DaySleeps
    /\ ExecDone

\* the end of the body of the for loop
BatchPairEnd ==
    IF PairLoopContinues(batchI, dailyPairGoal)
    THEN /\ pc' = "batch_pair_sleep"
         /\ sleepMs' \in randomDelay(BATCH_PAIR_MIN, BATCH_PAIR_MAX)
         /\ ExecDone
         /\ UNCHANGED batchI
    ELSE /\ BatchCycleEnd
         /\ batchI' = batchI + 1

\* the Daily Mint call has returned: the Daily Approve call is made
DailyMintReturn ==
    /\ pc = "daily_mint"
    /\ exPc = "returned"
    /\ mintSuccess' = exRet
    /\ pc' = "daily_approve"
    /\ CallExecute("Approve", MaxUint256)
    /\ UNCHANGED << sleepMs, dailyPairGoal, batchI, txCounter,
                    approveSuccess, wrapSuccess, unwrapSuccess >>
    /\ UNCHANGED idVars
    /\ UNCHANGED batchFrame

\* the Daily Approve call has returned: the pairs begin when the
\* preparation succeeded, otherwise the cycle ends
DailyApproveReturn ==
    /\ pc = "daily_approve"
    /\ exPc = "returned"
    /\ approveSuccess' = exRet
    /\ IF PreparationOk(mintSuccess, exRet)
       THEN /\ txCounter' = 0
            /\ batchI' = 1
            /\ BatchStartPair
       ELSE /\ BatchCycleEnd
            /\ UNCHANGED << txCounter, batchI, wrapSuccess, unwrapSuccess >>
            /\ UNCHANGED idVars
    /\ UNCHANGED << dailyPairGoal, mintSuccess >>
    /\ UNCHANGED batchFrame

\* the Wrap call of a pair has returned
BatchWrapReturn ==
    /\ pc = "batch_wrap"
    /\ exPc = "returned"
    /\ wrapSuccess' = exRet
    /\ txCounter' = IF exRet THEN txCounter + 1 ELSE txCounter
    /\ IF exRet
       THEN /\ pc' = "batch_post_wrap"
            /\ sleepMs' \in randomDelay(BATCH_POST_WRAP_MIN,
                                        BATCH_POST_WRAP_MAX)
            /\ ExecDone
            /\ UNCHANGED batchI
       ELSE BatchPairEnd
    /\ UNCHANGED << dailyPairGoal, mintSuccess, approveSuccess,
                    unwrapSuccess >>
    /\ UNCHANGED idVars
    /\ UNCHANGED batchFrame

\* the sleep after a successful wrap ends: the Unwrap call is made
BatchPostWrapWake ==
    /\ pc = "batch_post_wrap"
    /\ pc' = "batch_unwrap"
    /\ sleepMs' = 0
    /\ CallExecute("Unwrap", randomID)
    /\ UNCHANGED << wrapSuccess, unwrapSuccess >>
    /\ UNCHANGED idVars
    /\ UNCHANGED batchVars
    /\ UNCHANGED batchFrame

\* the Unwrap call of a pair has returned
BatchUnwrapReturn ==
    /\ pc = "batch_unwrap"
    /\ exPc = "returned"
    /\ unwrapSuccess' = exRet
    /\ txCounter' = IF exRet THEN txCounter + 1 ELSE txCounter
    /\ BatchPairEnd
    /\ UNCHANGED << dailyPairGoal, mintSuccess, approveSuccess,
                    wrapSuccess >>
    /\ UNCHANGED idVars
    /\ UNCHANGED batchFrame

\* the sleep between two pairs ends: i++ and the next pair begins
BatchPairWake ==
    /\ pc = "batch_pair_sleep"
    /\ batchI' = batchI + 1
    /\ BatchStartPair
    /\ UNCHANGED << dailyPairGoal, txCounter, mintSuccess, approveSuccess >>
    /\ UNCHANGED batchFrame

\* the sleep of main() ends: the next cycle chooses its goal and makes
\* its Daily Mint call
DayWake ==
    /\ pc = "day_sleep"
    /\ pc' = "daily_mint"
    /\ sleepMs' = 0
    /\ dailyPairGoal' \in PairGoals
    /\ batchI' = 0
    /\ txCounter' = 0
    /\ mintSuccess' = FALSE
    /\ approveSuccess' = FALSE
    /\ wrapSuccess' = FALSE
    /\ unwrapSuccess' = FALSE
    /\ randomID' = 0
    /\ idRnd' = << >>
    /\ idNow' = 0
    /\ idWrapCalls' = 0
    /\ CallExecute("Mint", MINT_AMOUNT)
    /\ UNCHANGED batchFrame

BatchNext ==
    \/ ExecFee
    \/ ExecSubmit
    \/ ExecWait
    \/ ExecWake
    \/ DailyMintReturn
    \/ DailyApproveReturn
    \/ BatchWrapReturn
    \/ BatchPostWrapWake
    \/ BatchUnwrapReturn
    \/ BatchPairWake
    \/ DayWake

BatchSpec == BatchInit /\ [][BatchNext]_vars

(***************************************************************************)
(* Properties of executeTransaction                                        *)
(***************************************************************************)
\* the number of attempts of the running call that ended with `kind`
CountOutcome(kind) ==
    Cardinality({ i \in 1..Len(exOutcomes) : exOutcomes[i] = kind })

\* every finished attempt of the running call ended with a kind of `kinds`
AllOutcomesIn(kinds) ==
    \A i \in 1..Len(exOutcomes) : exOutcomes[i] \in kinds

\* C1: a call whose every attempt fails with a rate-limit error makes
\* exactly MAX_RETRIES attempts and then returns false; it never makes more
\* attempts, it does not return earlier, and it waits after each of the
\* attempts 1..MAX_RETRIES-1 and not after the last one.
C1_RateLimitedExhaustsBudget ==
    (exPc # "idle" /\ AllOutcomesIn({ "RateLimited" })) =>
        /\ attempt <= MAX_RETRIES
        /\ Len(exOutcomes) <= MAX_RETRIES
        /\ exPc = "backoff" => (attempt < MAX_RETRIES /\ exBackoffs = attempt)
        /\ exPc \in { "fee", "submit", "wait" } => exBackoffs = attempt - 1
        /\ (exPc = "returned" /\ Len(exOutcomes) > 0) =>
              /\ Len(exOutcomes) = MAX_RETRIES
              /\ attempt = MAX_RETRIES
              /\ exRet = FALSE
              /\ exBackoffs = MAX_RETRIES - 1

C1_Witness ==
    /\ exPc = "returned"
    /\ exOutcomes = [ i \in 1..MAX_RETRIES |-> "RateLimited" ]
    /\ exRet = FALSE
    /\ exBackoffs = MAX_RETRIES - 1

\* C2: a call whose first attempt fails with a fatal error returns false at
\* once: one attempt is consumed, no wait is taken and the action is not
\* submitted again.
C2_FatalAbortsImmediately ==
    (exPc # "idle" /\ Len(exOutcomes) >= 1 /\ exOutcomes[1] = "FatalError") =>
        /\ exPc = "returned"
        /\ exRet = FALSE
        /\ attempt = 1
        /\ Len(exOutcomes) = 1
        /\ exBackoffs = 0
        /\ sleepMs = 0
        /\ exSubmits <= 1
        /\ currentRpcIndex = exStartIndex

C2_Witness ==
    /\ exPc = "returned"
    /\ exOutcomes = << "FatalError" >>
    /\ exSubmits = 1
    /\ exRet = FALSE

\* C3: when attempt k is confirmed after k-1 attempts that failed with a
\* retryable error, the call returns true and attempt k is its last; and a
\* call returns true only when its last attempt was confirmed.
C3_ConfirmedEndsCall ==
    /\ \A k \in 1..Len(exOutcomes) :
          exOutcomes[k] = "Confirmed" =>
             /\ k = Len(exOutcomes)
             /\ k <= MAX_RETRIES
             /\ attempt = k
             /\ exPc = "returned"
             /\ exRet = TRUE
             /\ \A j \in 1..(k - 1) :
                   exOutcomes[j] \in { "RateLimited", "NetworkFailure" }
    /\ (exPc = "returned" /\ exRet = TRUE) =>
          /\ Len(exOutcomes) >= 1
          /\ exOutcomes[Len(exOutcomes)] = "Confirmed"

C3_Witness ==
    /\ exPc = "returned"
    /\ exRet = TRUE
    /\ Len(exOutcomes) = MAX_RETRIES
    /\ exOutcomes[MAX_RETRIES] = "Confirmed"
    /\ CountOutcome("RateLimited") >= 1
    /\ CountOutcome("NetworkFailure") >= 1

\* C4: every attempt that fails with a network error advances
\* currentRpcIndex by one modulo the number of endpoints, the last attempt
\* included, so during and after a call the index is the index at the call
\* plus the number of network failures, modulo the number of endpoints; a
\* Wrap whose first two attempts fail with a network error and whose third
\* is confirmed returns true with the index advanced by two.
C4_NetworkFailureAdvancesIndex ==
    /\ exPc # "idle" =>
          currentRpcIndex =
              (exStartIndex + CountOutcome("NetworkFailure")) % Len(RPC_URLS)
    /\ exPc = "switch" =>
          /\ exOutcomes[Len(exOutcomes)] = "NetworkFailure"
          /\ Len(exOutcomes) = attempt
    /\ (exAction.name = "Wrap"
          /\ exOutcomes = << "NetworkFailure", "NetworkFailure", "Confirmed" >>)
        => /\ exPc = "returned"
           /\ exRet = TRUE
           /\ currentRpcIndex = (exStartIndex + 2) % Len(RPC_URLS)

C4_Witness ==
    /\ exAction.name = "Wrap"
    /\ exOutcomes = << "NetworkFailure", "NetworkFailure", "Confirmed" >>
    /\ exStartIndex = 2
    /\ currentRpcIndex = 1
    /\ exRet = TRUE

\* C5: rate-limit and network retries draw on one budget: a call makes at
\* most MAX_RETRIES attempts whatever the mix of the two, a call whose
\* MAX_RETRIES attempts all failed returns false, and, every await
\* returning, every call returns.
C5_SharedBudgetAndTermination ==
    /\ [](exPc # "idle" =>
            /\ attempt <= MAX_RETRIES + 1
            /\ exPc \in { "fee", "submit", "wait", "backoff", "switch" }
                  => attempt <= MAX_RETRIES
            /\ Len(exOutcomes) <= MAX_RETRIES
            /\ exSubmits <= MAX_RETRIES
            /\ (exPc = "returned" /\ CountOutcome("Confirmed") = 0)
                  => exRet = FALSE)
    /\ (exPc \in { "fee", "submit", "wait", "backoff", "switch" })
          ~> (exPc = "returned")

C5_Witness ==
    /\ exPc = "returned"
    /\ exOutcomes = [ i \in 1..MAX_RETRIES |-> "NetworkFailure" ]
    /\ attempt = MAX_RETRIES + 1
    /\ exRet = FALSE

(***************************************************************************)
(* Properties of the precondition checks                                   *)
(***************************************************************************)
\* C6: checkAndMintIfNeeded makes no executeTransaction call and returns
\* true when the balance it read is greater than 0; when the balance is 0 it
\* makes exactly one call, for mint, and returns what that call returns.
C6_MintOnlyWhenEmpty ==
    /\ [](pc = "check_balance" =>
            /\ chkRead > 0 =>
                  /\ chkCalls = 0
                  /\ exPc = "idle"
                  /\ chkPc = "returned"
                  /\ chkRet = TRUE
            /\ chkRead = 0 =>
                  /\ chkCalls = 1
                  /\ chkPc \in { "exec", "returned" }
                  /\ chkPc = "exec" =>
                        exAction = [ name |-> "Mint", arg |-> MINT_AMOUNT ]
            /\ chkCalls <= 1)
    /\ [][(pc = "check_balance" /\ chkPc = "exec" /\ chkPc' = "returned") =>
             (exPc = "returned" /\ chkRet' = exRet)]_vars

C6_Witness ==
    /\ pc = "check_balance"
    /\ chkPc = "returned"
    /\ chkRead = 0
    /\ chkCalls = 1
    /\ chkRet = TRUE

\* C7: checkAndApproveIfNeeded makes no executeTransaction call and returns
\* true when the allowance it read is at least SUFFICIENT_ALLOWANCE; when
\* the allowance is below it makes exactly one call, for approve with the
\* maximum value, and returns what that call returns.
C7_ApproveOnlyWhenLow ==
    /\ [](pc = "setup" =>
            /\ chkRead >= SUFFICIENT_ALLOWANCE =>
                  /\ chkCalls = 0
                  /\ exPc = "idle"
                  /\ chkPc = "returned"
                  /\ chkRet = TRUE
            /\ (chkRead >= 0 /\ chkRead < SUFFICIENT_ALLOWANCE) =>
                  /\ chkCalls = 1
                  /\ chkPc \in { "exec", "returned" }
                  /\ chkPc = "exec" =>
                        exAction = [ name |-> "Approve", arg |-> MaxUint256 ]
            /\ chkCalls <= 1)
    /\ [][(pc = "setup" /\ chkPc = "exec" /\ chkPc' = "returned") =>
             (exPc = "returned" /\ chkRet' = exRet)]_vars

C7_Witness ==
    /\ pc = "setup"
    /\ chkPc = "returned"
    /\ chkRead = SUFFICIENT_ALLOWANCE - 1
    /\ chkCalls = 1
    /\ chkRet = TRUE

(***************************************************************************)
(* Properties of main(), continuous mode                                   *)
(***************************************************************************)
\* the order of the first submissions when every read returns 0 and no
\* attempt fails
SetupFirstOrder == << "Approve", "Mint", "Wrap", "Unwrap" >>

\* the order with the mint first
MintFirstOrder == << "Mint", "Approve", "Wrap", "Unwrap" >>

\* the first submissions of txLog follow the given order
LogFollows(order) ==
    \A i \in 1..Len(txLog) : i <= Len(order) => txLog[i] = order[i]

\* C8 as stated: with the balance and the allowance at 0 and every
\* transaction succeeding, the first four submissions are mint, approve,
\* wrap, unwrap.
C8_MintFirst == LogFollows(MintFirstOrder)

\* C8, amended: with the balance and the allowance at 0 and every
\* transaction succeeding, the first four submissions are approve, mint,
\* wrap, unwrap, each made by executeTransaction.
C8_ApproveFirst ==
    /\ [](LogFollows(SetupFirstOrder))
    /\ [][txLog' # txLog =>
             (exPc = "fee" /\ scenarioA /\ txLog' = Append(txLog, exAction.name))
         ]_vars

C8_Witness ==
    /\ scenarioA
    /\ Len(txLog) >= 4
    /\ SubSeq(txLog, 1, 4) = SetupFirstOrder
    /\ pc = "pair_delay"

\* C9: when the Wrap call of an iteration returns false, main() waits
\* PAIR_FAIL_DELAY and starts a new iteration without an Unwrap call; the
\* identifier is dropped, and every Wrap call is made with an identifier
\* generated in the step that makes the call.
C9_FailedWrapSkipsUnwrap ==
    /\ [][(pc = "wrap" /\ exPc = "returned" /\ exRet = FALSE) =>
             (pc' = "wrap_fail_delay" /\ sleepMs' = PAIR_FAIL_DELAY
                 /\ exPc' = "idle")]_vars
    /\ [][pc = "wrap_fail_delay" =>
             (pc' = "check_balance" /\ randomID' = 0 /\ idWrapCalls' = 0
                 /\ exPc' = "idle")]_vars
    /\ [][(exAction'.name = "Wrap" /\ exAction.name # "Wrap") =>
             (pc = "check_balance" /\ idWrapCalls = 0 /\ idWrapCalls' = 1
                 /\ exAction'.arg = randomID')]_vars
    /\ [](/\ exAction.name = "Unwrap" => (pc = "unwrap" /\ wrapSuccess)
          /\ pc \in { "inter_delay", "unwrap" } => wrapSuccess
          /\ pc = "wrap_fail_delay" => (~wrapSuccess /\ exPc = "idle")
          /\ idWrapCalls <= 1)

C9_Witness ==
    /\ pc = "wrap_fail_delay"
    /\ sleepMs = PAIR_FAIL_DELAY
    /\ wrapSuccess = FALSE
    /\ randomID # 0

\* C10: successfulPairs never decreases and changes by +1 only; it changes
\* in exactly the steps in which the Unwrap call of an iteration whose Wrap
\* call returned true returns true.
C10_PairCounter ==
    /\ [][successfulPairs' # successfulPairs =>
             /\ successfulPairs' = successfulPairs + 1
             /\ pc = "unwrap"
             /\ exPc = "returned"
             /\ exAction.name = "Unwrap"
             /\ exRet = TRUE
             /\ wrapSuccess = TRUE]_vars
    /\ [][(pc = "unwrap" /\ exPc = "returned" /\ exRet = TRUE) =>
             successfulPairs' = successfulPairs + 1]_vars
    /\ [][(pc = "unwrap" /\ exPc = "returned" /\ exRet = FALSE) =>
             (successfulPairs' = successfulPairs
                 /\ pc' = "unwrap_fail_delay")]_vars

C10_Witness ==
    /\ successfulPairs = 2
    /\ pc = "pair_delay"
    /\ wrapSuccess
    /\ unwrapSuccess

(***************************************************************************)
(* Properties of error propagation, identifiers and backoff                *)
(***************************************************************************)
\* C11: no exception escapes executeTransaction: whatever fails in the fee
\* query, the submission, the confirmation wait or the failure handling
\* (the rebuild of the connection on failover included), the call never
\* ends by throwing to its caller.
C11_NoExceptionEscapes == exPc # "thrown"

\* C12: the decimal representation of every generated identifier has
\* exactly TokenLen + 5 digits, and its last 5 digits are the last 5 digits
\* of the timestamp taken by the call.
C12_IdentifierDigits ==
    idRnd # << >> =>
        /\ Len(ToDigits(randomID)) = TokenLen + 5
        /\ SliceLast(ToDigits(randomID), 5) = SliceLast(ToDigits(idNow), 5)

\* 2^n
RECURSIVE Pow2(_)
Pow2(n) == IF n = 0 THEN 1 ELSE 2 * Pow2(n - 1)

\* C13: the rate-limit waits of one call follow an exponential strategy:
\* each wait is at least twice the one before it, so that the n-th wait of
\* the call is at least 2^(n-1) times the shortest possible first wait.
C13_ExponentialBackoff ==
    exPc = "backoff" => sleepMs >= BACKOFF_MIN * Pow2(exBackoffs - 1)

(***************************************************************************)
(* Properties of main(), the checks and the endpoint selection             *)
(***************************************************************************)
\* C14: in continuous mode, when the setup check returns false the process
\* sleeps SETUP_FAIL_DELAY and then exits with status 1; it makes no
\* balance check and no Mint, Wrap or Unwrap call before or after that, and
\* the loop is entered from the setup only when the setup returned true.
C14_SetupFailureExits ==
    /\ [][(pc = "setup" /\ chkPc = "returned" /\ ~chkRet) =>
             (pc' = "setup_fail_sleep" /\ sleepMs' = SETUP_FAIL_DELAY)]_vars
    /\ [][pc = "setup_fail_sleep" =>
             (pc' = "exited" /\ exitCode' = EXIT_FAILURE)]_vars
    /\ [][pc # "exited"]_vars
    /\ [](pc = "setup" => exAction.name \in { "none", "Approve" })
    /\ [](pc \in { "setup_fail_sleep", "exited" } =>
             /\ exPc = "idle"
             /\ chkPc = "idle"
             /\ exAction = NoAction
             /\ randomID = 0
             /\ successfulPairs = 0
             /\ \A k \in 1..Len(txLog) : txLog[k] = "Approve")
    /\ [](exitCode # -1 <=> pc = "exited")
    /\ [][(pc = "setup" /\ pc' # "setup" /\ pc' # "setup_fail_sleep") =>
             (pc' = "check_balance" /\ chkPc = "returned" /\ chkRet
                 /\ chkPc' = "read")]_vars

C14_Witness ==
    /\ pc = "exited"
    /\ exitCode = EXIT_FAILURE
    /\ currentRpcIndex # 0

\* C15 as stated: every daily cycle of batch mode runs exactly the chosen
\* number of pair iterations, so that when the cycle ends the loop counter
\* has passed the goal.
C15_AlwaysRunsPairs ==
    pc = "day_sleep" => batchI = dailyPairGoal + 1

\* C15, amended: every daily cycle makes the Mint call and then, whatever
\* the Mint returned, the Approve call; when both returned true it runs
\* exactly the chosen number (PAIR_GOAL_MIN..PAIR_GOAL_MAX) of pair
\* iterations, each starting with a Wrap call, counts the transactions that
\* returned true, and ends only after the last pair whatever the wraps and
\* unwraps returned; when the Mint or the Approve returned false it runs no
\* pair that day.
C15_PreparationThenPairs ==
    /\ [](dailyPairGoal \in PAIR_GOAL_MIN..PAIR_GOAL_MAX)
    /\ [](pc = "daily_mint" => (exAction.name = "Mint" /\ batchI = 0))
    /\ [](pc = "daily_approve" => (exAction.name = "Approve" /\ batchI = 0))
    /\ [][(pc = "daily_mint" /\ pc' # "daily_mint") =>
             (pc' = "daily_approve" /\ exPc = "returned"
                 /\ mintSuccess' = exRet /\ exPc' = "fee")]_vars
    /\ [][pc = "day_sleep" => (pc' = "daily_mint" /\ exPc' = "fee")]_vars
    /\ [](pc \in { "batch_wrap", "batch_post_wrap", "batch_unwrap",
                   "batch_pair_sleep" } =>
             /\ mintSuccess
             /\ approveSuccess
             /\ batchI \in 1..dailyPairGoal)
    /\ [](pc = "batch_wrap" => exAction.name = "Wrap")
    /\ [](pc = "batch_unwrap" => (exAction.name = "Unwrap" /\ wrapSuccess))
    /\ [](pc = "day_sleep" =>
             IF mintSuccess /\ approveSuccess
             THEN batchI = dailyPairGoal + 1
             ELSE batchI = 0 /\ txCounter = 0)
    /\ [][(batchI' # batchI /\ batchI' \in 1..dailyPairGoal) =>
             (batchI' = batchI + 1 /\ pc' = "batch_wrap" /\ exPc' = "fee"
                 /\ exAction'.name = "Wrap")]_vars
    /\ [][(pc \in { "batch_wrap", "batch_unwrap" } /\ exPc = "returned"
              /\ batchI < dailyPairGoal) =>
             pc' \in { "batch_post_wrap", "batch_pair_sleep" }]_vars
    /\ [][(txCounter' # txCounter /\ pc # "day_sleep") =>
             (txCounter' = txCounter + 1 /\ exPc = "returned" /\ exRet
                 /\ pc \in { "batch_wrap", "batch_unwrap" })]_vars
    /\ [][(pc \in { "batch_wrap", "batch_unwrap" } /\ exPc = "returned"
              /\ ~exRet) => txCounter' = txCounter]_vars

C15_Witness ==
    /\ pc = "day_sleep"
    /\ dailyPairGoal = PAIR_GOAL_MAX
    /\ batchI = dailyPairGoal + 1
    /\ txCounter = 1
    /\ ~wrapSuccess

\* C16: when the read of a check fails, the check returns false at once:
\* it makes no executeTransaction call, does not issue the read again, and
\* leaves the endpoint index and the connection as they were, whatever the
\* kind of the error.
C16_ReadFailureReturnsFalse ==
    /\ [][(chkPc = "read" /\ chkError' # "none") =>
             /\ chkPc' = "returned"
             /\ chkRet' = FALSE
             /\ chkCalls' = 0
             /\ exPc' = "idle"
             /\ exAction' = NoAction
             /\ currentRpcIndex' = currentRpcIndex
             /\ conn' = conn
             /\ txLog' = txLog]_vars
    /\ [](chkError # "none" =>
             (chkPc = "returned" /\ ~chkRet /\ chkCalls = 0 /\ exPc = "idle"))
    /\ [][(chkPc = "returned" /\ chkError # "none") =>
             (pc' \in { "setup_fail_sleep", "mint_fail_sleep" }
                 /\ exPc' = "idle" /\ chkPc' = "idle")]_vars

C16_Witness ==
    /\ pc = "check_balance"
    /\ chkPc = "returned"
    /\ chkError = "NetworkFailure"
    /\ chkRet = FALSE
    /\ currentRpcIndex = 0

\* the program is suspended at an await
AtSuspensionPoint ==
    \/ exPc \in { "fee", "submit", "wait", "backoff", "switch" }
    \/ chkPc = "read"
    \/ pc \in { "setup_fail_sleep", "mint_fail_sleep", "inter_delay",
                "wrap_fail_delay", "unwrap_fail_delay", "pair_delay" }

\* C17: at every suspension point the endpoint index is a position of
\* RPC_URLS, and the provider, the wallet and both contract handles are
\* the ones built for the endpoint at that index.
C17_ConnectionConsistent ==
    AtSuspensionPoint =>
        /\ currentRpcIndex \in 0..(Len(RPC_URLS) - 1)
        /\ conn.provider = currentRpcIndex
        /\ conn.wallet = currentRpcIndex
        /\ conn.mintContract = currentRpcIndex
        /\ conn.wrapperContract = currentRpcIndex

\* C18: the endpoint index and the connection change only in the step in
\* which an attempt of executeTransaction ends with a network failure, and
\* then the index advances by one modulo the number of endpoints; an
\* attempt that ends Confirmed, RateLimited or FatalError leaves both
\* unchanged, and a call starts on the index the previous call left.
C18_IndexChangedOnlyByFailover ==
    /\ [][(currentRpcIndex' # currentRpcIndex \/ conn' # conn) =>
             /\ exPc \in { "fee", "submit", "wait" }
             /\ exPc' = "switch"
             /\ exOutcomes' = Append(exOutcomes, "NetworkFailure")
             /\ currentRpcIndex' = (currentRpcIndex + 1) % Len(RPC_URLS)]_vars
    /\ [][(Len(exOutcomes') = Len(exOutcomes) + 1
              /\ exOutcomes'[Len(exOutcomes')]
                     \in { "Confirmed", "RateLimited", "FatalError" }) =>
             (currentRpcIndex' = currentRpcIndex /\ conn' = conn)]_vars
    /\ [][(exPc = "idle" /\ exPc' = "fee") =>
             (currentRpcIndex' = currentRpcIndex
                 /\ exStartIndex' = currentRpcIndex)]_vars
    /\ [][(chkPc # "read" /\ chkPc' = "read") =>
             (currentRpcIndex' = currentRpcIndex /\ conn' = conn)]_vars

C18_Witness ==
    /\ pc = "wrap"
    /\ exPc = "wait"
    /\ exOutcomes = << "RateLimited" >>
    /\ exStartIndex = 1
    /\ currentRpcIndex = 1
    /\ conn.wrapperContract = 1

\* C19: in continuous mode an Unwrap call is made only after the Wrap call
\* of the same iteration returned true, and with the identifier of that
\* Wrap call; when the Unwrap call returns false the pair is not counted,
\* main() sleeps PAIR_FAIL_DELAY, and the next iteration starts with the
\* balance check and generates a new identifier: the Unwrap is not made
\* again.
C19_UnwrapFollowsItsWrap ==
    /\ [](exAction.name = "Wrap" =>
             (pc = "wrap" /\ exAction.arg = randomID /\ idWrapCalls = 1))
    /\ [](exAction.name = "Unwrap" =>
             (pc = "unwrap" /\ wrapSuccess /\ exAction.arg = randomID
                 /\ idWrapCalls = 1))
    /\ [][(exAction'.name = "Unwrap" /\ exAction.name # "Unwrap") =>
             (pc = "inter_delay" /\ wrapSuccess /\ randomID' = randomID)]_vars
    /\ [][(pc \in { "wrap", "inter_delay", "unwrap" }
              /\ pc' \in { "wrap", "inter_delay", "unwrap" }) =>
             (randomID' = randomID /\ idWrapCalls' = idWrapCalls)]_vars
    /\ [][(pc = "unwrap" /\ exPc = "returned" /\ ~exRet) =>
             /\ pc' = "unwrap_fail_delay"
             /\ sleepMs' = PAIR_FAIL_DELAY
             /\ successfulPairs' = successfulPairs
             /\ exPc' = "idle"]_vars
    /\ [][pc = "unwrap_fail_delay" =>
             /\ pc' = "check_balance"
             /\ chkPc' = "read"
             /\ exPc' = "idle"
             /\ randomID' = 0
             /\ idWrapCalls' = 0]_vars
    /\ [][(pc = "check_balance" /\ pc' = "wrap") =>
             /\ idRnd' \in [ 1..TokenLen -> RandDigits ]
             /\ idNow' \in Timestamps
             /\ randomID' = getRandomTokenID(idRnd', idNow')
             /\ exAction' = [ name |-> "Wrap", arg |-> randomID' ]]_vars

C19_Witness ==
    /\ pc = "unwrap_fail_delay"
    /\ sleepMs = PAIR_FAIL_DELAY
    /\ wrapSuccess
    /\ ~unwrapSuccess
    /\ randomID # 0
    /\ successfulPairs = 1

\* C20: in continuous mode, when the balance check of an iteration returns
\* false, no Wrap or Unwrap call is made in that iteration: main() sleeps
\* MINT_FAIL_DELAY and starts the next iteration with a new balance check.
\* A Wrap call is made only in the step in which the balance check of its
\* iteration returns true.
C20_FailedBalanceCheckSkipsPair ==
    /\ [][(pc = "check_balance" /\ chkPc = "returned" /\ ~chkRet) =>
             /\ pc' = "mint_fail_sleep"
             /\ sleepMs' = MINT_FAIL_DELAY
             /\ exPc' = "idle"
             /\ exAction' = NoAction
             /\ successfulPairs' = successfulPairs]_vars
    /\ [](pc = "mint_fail_sleep" =>
             (~readyToWrap /\ exPc = "idle" /\ randomID = 0
                 /\ idWrapCalls = 0))
    /\ [][pc = "mint_fail_sleep" =>
             (pc' = "check_balance" /\ chkPc' = "read" /\ exPc' = "idle")]_vars
    /\ [][(exAction'.name = "Wrap" /\ exAction.name # "Wrap") =>
             (pc = "check_balance" /\ chkPc = "returned" /\ chkRet
                 /\ readyToWrap')]_vars
    /\ [](exAction.name \in { "Wrap", "Unwrap" } => readyToWrap)

C20_Witness ==
    /\ pc = "mint_fail_sleep"
    /\ sleepMs = MINT_FAIL_DELAY
    /\ ~readyToWrap
    /\ successfulPairs = 1

(***************************************************************************)
(* Properties of resubmission and of the classification of errors          *)
(***************************************************************************)
\* C21: within one executeTransaction call, once a submission has returned
\* a transaction handle the action is never submitted again: fn() is not
\* pending while an earlier submission of the same call was acknowledged.
C21_NoResubmissionAfterHandle == ~(exAcked /\ exPc = "submit")

\* C22: every failed attempt is handled by exactly one branch of the catch
\* block, and the rate-limit test comes first: an error that matches the
\* rate-limit rule, the network rule matched as well or not, is recorded as
\* RateLimited, leaves the endpoint index and the connection unchanged and
\* either backs off (attempts remain) or returns false; only an error that
\* matches the network rule alone switches the endpoint, and an error that
\* matches neither returns false.
C22_RateLimitPrecedence ==
    /\ [][(Len(exOutcomes') = Len(exOutcomes) + 1
              /\ exOutcomes'[Len(exOutcomes')] # "Confirmed") =>
             /\ exPc \in { "fee", "submit", "wait" }
             /\ exPc' \in { "backoff", "switch", "returned" }
             /\ IF exTests'.rate
                THEN /\ exOutcomes'[Len(exOutcomes')] = "RateLimited"
                     /\ currentRpcIndex' = currentRpcIndex
                     /\ conn' = conn
                     /\ IF attempt < MAX_RETRIES
                        THEN /\ exPc' = "backoff"
                             /\ sleepMs' \in BACKOFF_MIN..BACKOFF_MAX
                             /\ exBackoffs' = exBackoffs + 1
                        ELSE exPc' = "returned" /\ exRet' = FALSE
                ELSE IF exTests'.net
                THEN /\ exOutcomes'[Len(exOutcomes')] = "NetworkFailure"
                     /\ exPc' = "switch"
                     /\ sleepMs' = RPC_SWITCH_DELAY
                     /\ currentRpcIndex' # currentRpcIndex
                     /\ exBackoffs' = exBackoffs
                ELSE /\ exOutcomes'[Len(exOutcomes')] = "FatalError"
                     /\ exPc' = "returned"
                     /\ exRet' = FALSE
                     /\ currentRpcIndex' = currentRpcIndex
                     /\ conn' = conn]_vars
    /\ [](exTests # NoTests => exPc \in { "backoff", "switch", "returned" })

C22_Witness ==
    /\ exPc = "backoff"
    /\ exTests = [ rate |-> TRUE, net |-> TRUE ]
    /\ exAction.name = "Wrap"
    /\ exOutcomes = << "RateLimited" >>
    /\ currentRpcIndex = 0
    /\ sleepMs = BACKOFF_MAX

====
